---- MODULE Spec2Model ----
(***************************************************************************)
(* Model of the batch-job engine of src/assets/nef.py: the dispatch loops  *)
(* of main(), the worker() function run either in the main thread          *)
(* (--threads 1) or by the threads of a ThreadPoolExecutor, the shared     *)
(* counter guarded by progress_lock, the print_queue status channel, and   *)
(* the SIGINT handler handle_interrupt().  The image codec (convert_nef)   *)
(* is an opaque call that returns, raises, or never returns.               *)
(***************************************************************************)
EXTENDS Integers, Sequences, FiniteSets, TLC

\* ---- bounds of the model ----
MaxJobs == 2
MaxThreads == 2
MaxFormats == 2
MaxInterrupts == 2

VARIABLES
    total,          \* len(nef_files), line 137
    threads,        \* args.threads, line 118
    nformats,       \* len(out_formats), line 123
    stop_event,     \* Event, line 20
    print_queue,    \* Queue, line 21
    progress_lock,  \* Lock, line 22: 0 when free, else the holder
    counter,        \* counter[0], line 145
    pc,             \* position of main()
    i,              \* index of the next job of enumerate(nef_files, 1)
    workq,          \* work items submitted to the executor, not yet taken
    wk,             \* one activation record of worker() per thread
    hpc,            \* position of handle_interrupt
    printed,        \* what print() has written so far
    interrupts,     \* number of SIGINTs delivered
    attempted,      \* jobs whose worker passed the check of line 87
    abandoned,      \* jobs whose worker returned at line 88
    outcome,        \* per job: "none", "ok" (all formats converted), "fail"
    starts,         \* per job: number of times worker() was entered for it
    dispAtStop      \* number of jobs dispatched when stop_event was first set

vars == <<total, threads, nformats, stop_event, print_queue, progress_lock,
          counter, pc, i, workq, wk, hpc, printed, interrupts, attempted,
          abandoned, outcome, starts, dispAtStop>>

ghost == <<attempted, abandoned, outcome, starts, dispAtStop>>
config == <<total, threads, nformats>>

Jobs == 1..total
Threads == 1..threads

\* ---- status messages (lines 82, 103-105, 107, 173-177) ----
Msg(kind, job, left) == [kind |-> kind, job |-> job, left |-> left]
StoppingMsg == Msg("stopping", 0, 0)
DoneMsg(job, remaining) == Msg("done", job, remaining)
ErrorMsg(job) == Msg("error", job, 0)
SummaryMsg(stopped) == Msg(IF stopped THEN "stopped_early" ELSE "completed", 0, 0)

IdleW == [pc |-> "idle", job |-> 0, fmt |-> 0, reg |-> 0, rem |-> 0]
EnterW(job) == [pc |-> "check", job |-> job, fmt |-> 0, reg |-> 0, rem |-> 0]

Init ==
    /\ total \in 1..MaxJobs
    /\ threads \in 1..MaxThreads
    /\ nformats \in 1..MaxFormats
    /\ stop_event = FALSE
    /\ print_queue = <<>>
    /\ progress_lock = 0
    /\ counter = 0
    /\ pc = IF threads = 1 THEN "loop1" ELSE "loopN"
    /\ i = 1
    /\ workq = <<>>
    /\ wk = [w \in 1..MaxThreads |-> IdleW]
    /\ hpc = "idle"
    /\ printed = <<>>
    /\ interrupts = 0
    /\ attempted = {}
    /\ abandoned = {}
    /\ outcome = [j \in 1..MaxJobs |-> "none"]
    /\ starts = [j \in 1..MaxJobs |-> 0]
    /\ dispAtStop = -1

\* The handler runs in the main thread: while it runs, main() is suspended,
\* and so is worker() when main() itself calls it (--threads 1).
MainRunnable == hpc = "idle"
Runnable(w) == threads > 1 \/ hpc = "idle"

\* variant: worker() returns straight to the loop head, skipping lines 154-155
ReturnPc_NoDrain == IF threads = 1 THEN "loop1" ELSE pc

\* return from worker(): back to the caller at line 154 when called by main()
ReturnPc == IF threads = 1 THEN "drain1" ELSE pc

\* ---- handle_interrupt, lines 81-83 ----
\* variant: the flag is set first and the message is not yet enqueued
HandlerPut_SetFirst ==
    /\ hpc = "idle"
    /\ pc # "done"
    /\ interrupts < MaxInterrupts
    /\ stop_event' = TRUE
    /\ dispAtStop' = IF stop_event THEN dispAtStop ELSE i - 1
    /\ hpc' = "set"
    /\ interrupts' = interrupts + 1
    /\ UNCHANGED <<config, print_queue, progress_lock, counter, pc, i, workq,
                   wk, printed, attempted, abandoned, outcome, starts>>

HandlerPut ==
    /\ hpc = "idle"
    /\ pc # "done"
    /\ interrupts < MaxInterrupts
    /\ print_queue' = Append(print_queue, StoppingMsg)
    /\ hpc' = "set"
    /\ interrupts' = interrupts + 1
    /\ UNCHANGED <<config, stop_event, progress_lock, counter, pc, i, workq,
                   wk, printed, ghost>>

HandlerSet ==
    /\ hpc = "set"
    /\ stop_event' = TRUE
    /\ hpc' = "idle"
    /\ dispAtStop' = IF stop_event THEN dispAtStop ELSE i - 1
    /\ UNCHANGED <<config, print_queue, progress_lock, counter, pc, i, workq,
                   wk, printed, interrupts, attempted, abandoned, outcome,
                   starts>>

\* ---- worker, lines 86-107 ----
\* variant: a skipped job is reported on the status channel
WorkerAbandon_Reports(w) ==
    /\ Runnable(w)
    /\ wk[w].pc = "check"
    /\ stop_event
    /\ abandoned' = abandoned \cup {wk[w].job}
    /\ print_queue' = Append(print_queue, ErrorMsg(wk[w].job))
    /\ wk' = [wk EXCEPT ![w] = IdleW]
    /\ pc' = ReturnPc
    /\ UNCHANGED <<config, stop_event, progress_lock, counter, i, workq, hpc,
                   printed, interrupts, attempted, outcome, starts,
                   dispAtStop>>

WorkerAbandon(w) ==
    /\ Runnable(w)
    /\ wk[w].pc = "check"
    /\ stop_event
    /\ abandoned' = abandoned \cup {wk[w].job}
    /\ wk' = [wk EXCEPT ![w] = IdleW]
    /\ pc' = ReturnPc
    /\ UNCHANGED <<config, stop_event, print_queue, progress_lock, counter,
                   i, workq, hpc, printed, interrupts, attempted, outcome,
                   starts, dispAtStop>>

\* variant: worker() without the check of lines 87-88
WorkerStart_NoStopCheck(w) ==
    /\ Runnable(w)
    /\ wk[w].pc = "check"
    /\ attempted' = attempted \cup {wk[w].job}
    /\ wk' = [wk EXCEPT ![w].pc = "loop", ![w].fmt = 1]
    /\ UNCHANGED <<config, stop_event, print_queue, progress_lock, counter,
                   pc, i, workq, hpc, printed, interrupts, abandoned, outcome,
                   starts, dispAtStop>>

WorkerStart(w) ==
    /\ Runnable(w)
    /\ wk[w].pc = "check"
    /\ ~stop_event
    /\ attempted' = attempted \cup {wk[w].job}
    /\ wk' = [wk EXCEPT ![w].pc = "loop", ![w].fmt = 1]
    /\ UNCHANGED <<config, stop_event, print_queue, progress_lock, counter,
                   pc, i, workq, hpc, printed, interrupts, abandoned, outcome,
                   starts, dispAtStop>>

ConvertCall(w) ==
    /\ Runnable(w)
    /\ wk[w].pc = "loop"
    /\ wk' = [wk EXCEPT ![w].pc = "converting"]
    /\ UNCHANGED <<config, stop_event, print_queue, progress_lock, counter,
                   pc, i, workq, hpc, printed, interrupts, ghost>>

\* variant: the loop of line 92 is left after the first format
ConvertReturn_SkipsRest(w) ==
    /\ Runnable(w)
    /\ wk[w].pc = "converting"
    /\ wk' = [wk EXCEPT ![w].pc = "acquire"]
    /\ outcome' = [outcome EXCEPT ![wk[w].job] = "ok"]
    /\ UNCHANGED <<config, stop_event, print_queue, progress_lock, counter,
                   pc, i, workq, hpc, printed, interrupts, attempted,
                   abandoned, starts, dispAtStop>>

ConvertReturn(w) ==
    /\ Runnable(w)
    /\ wk[w].pc = "converting"
    /\ IF wk[w].fmt < nformats
         THEN /\ wk' = [wk EXCEPT ![w].pc = "loop", ![w].fmt = @ + 1]
              /\ UNCHANGED outcome
         ELSE /\ wk' = [wk EXCEPT ![w].pc = "acquire"]
              /\ outcome' = [outcome EXCEPT ![wk[w].job] = "ok"]
    /\ UNCHANGED <<config, stop_event, print_queue, progress_lock, counter,
                   pc, i, workq, hpc, printed, interrupts, attempted,
                   abandoned, starts, dispAtStop>>

\* variant: the counter update placed where a failed job also reaches it
ConvertFail_Counted(w) ==
    /\ Runnable(w)
    /\ wk[w].pc = "converting"
    /\ wk' = [wk EXCEPT ![w].pc = "acquire"]
    /\ outcome' = [outcome EXCEPT ![wk[w].job] = "fail"]
    /\ UNCHANGED <<config, stop_event, print_queue, progress_lock, counter,
                   pc, i, workq, hpc, printed, interrupts, attempted,
                   abandoned, starts, dispAtStop>>

ConvertFail(w) ==
    /\ Runnable(w)
    /\ wk[w].pc = "converting"
    /\ wk' = [wk EXCEPT ![w].pc = "except"]
    /\ outcome' = [outcome EXCEPT ![wk[w].job] = "fail"]
    /\ UNCHANGED <<config, stop_event, print_queue, progress_lock, counter,
                   pc, i, workq, hpc, printed, interrupts, attempted,
                   abandoned, starts, dispAtStop>>

ConvertHang(w) ==
    /\ Runnable(w)
    /\ wk[w].pc = "converting"
    /\ wk' = [wk EXCEPT ![w].pc = "hung"]
    /\ UNCHANGED <<config, stop_event, print_queue, progress_lock, counter,
                   pc, i, workq, hpc, printed, interrupts, ghost>>

\* variant: the counter update without progress_lock
LockAcquire_NoLock(w) ==
    /\ Runnable(w)
    /\ wk[w].pc = "acquire"
    /\ progress_lock' = w
    /\ wk' = [wk EXCEPT ![w].pc = "load"]
    /\ UNCHANGED <<config, stop_event, print_queue, counter, pc, i, workq,
                   hpc, printed, interrupts, ghost>>

LockAcquire(w) ==
    /\ Runnable(w)
    /\ wk[w].pc = "acquire"
    /\ progress_lock = 0
    /\ progress_lock' = w
    /\ wk' = [wk EXCEPT ![w].pc = "load"]
    /\ UNCHANGED <<config, stop_event, print_queue, counter, pc, i, workq,
                   hpc, printed, interrupts, ghost>>

CounterLoad(w) ==
    /\ Runnable(w)
    /\ wk[w].pc = "load"
    /\ wk' = [wk EXCEPT ![w].pc = "store", ![w].reg = counter]
    /\ UNCHANGED <<config, stop_event, print_queue, progress_lock, counter,
                   pc, i, workq, hpc, printed, interrupts, ghost>>

CounterStore(w) ==
    /\ Runnable(w)
    /\ wk[w].pc = "store"
    /\ counter' = wk[w].reg + 1
    /\ wk' = [wk EXCEPT ![w].pc = "eta"]
    /\ UNCHANGED <<config, stop_event, print_queue, progress_lock, pc, i,
                   workq, hpc, printed, interrupts, ghost>>

ComputeEta(w) ==
    /\ Runnable(w)
    /\ wk[w].pc = "eta"
    /\ wk' = [wk EXCEPT ![w].pc = "put", ![w].rem = total - counter]
    /\ progress_lock' = 0
    /\ UNCHANGED <<config, stop_event, print_queue, counter, pc, i, workq,
                   hpc, printed, interrupts, ghost>>

\* variant: an exception after the put of line 105 reaches the except branch
PutDone_ThenError(w) ==
    /\ Runnable(w)
    /\ wk[w].pc = "put"
    /\ print_queue' = Append(print_queue, DoneMsg(wk[w].job, wk[w].rem))
    /\ wk' = [wk EXCEPT ![w].pc = "except"]
    /\ UNCHANGED <<config, stop_event, progress_lock, counter, pc, i, workq,
                   hpc, printed, interrupts, ghost>>

PutDone(w) ==
    /\ Runnable(w)
    /\ wk[w].pc = "put"
    /\ print_queue' = Append(print_queue, DoneMsg(wk[w].job, wk[w].rem))
    /\ wk' = [wk EXCEPT ![w] = IdleW]
    /\ pc' = ReturnPc
    /\ UNCHANGED <<config, stop_event, progress_lock, counter, i, workq, hpc,
                   printed, interrupts, ghost>>

\* variant: the except branch hands the failed job back to the pool
PutError_Retry(w) ==
    /\ Runnable(w)
    /\ wk[w].pc = "except"
    /\ print_queue' = Append(print_queue, ErrorMsg(wk[w].job))
    /\ workq' = IF threads > 1 /\ starts[wk[w].job] < 2
                   THEN Append(workq, wk[w].job) ELSE workq
    /\ wk' = [wk EXCEPT ![w] = IdleW]
    /\ pc' = ReturnPc
    /\ UNCHANGED <<config, stop_event, progress_lock, counter, i, hpc,
                   printed, interrupts, ghost>>

PutError(w) ==
    /\ Runnable(w)
    /\ wk[w].pc = "except"
    /\ print_queue' = Append(print_queue, ErrorMsg(wk[w].job))
    /\ wk' = [wk EXCEPT ![w] = IdleW]
    /\ pc' = ReturnPc
    /\ UNCHANGED <<config, stop_event, progress_lock, counter, i, workq, hpc,
                   printed, interrupts, ghost>>

\* ---- main, --threads 1: lines 147-155 ----
Loop1Check ==
    /\ MainRunnable
    /\ pc = "loop1"
    /\ pc' = IF i > total \/ stop_event THEN "summary" ELSE "call1"
    /\ UNCHANGED <<config, stop_event, print_queue, progress_lock, counter,
                   i, workq, wk, hpc, printed, interrupts, ghost>>

\* variant: worker() is started in a thread of its own instead of being called
Call1_Spawn ==
    /\ MainRunnable
    /\ pc = "call1"
    /\ \E w \in 1..MaxThreads :
          /\ wk[w].pc = "idle"
          /\ \A v \in 1..(w - 1) : wk[v].pc # "idle"
          /\ wk' = [wk EXCEPT ![w] = EnterW(i)]
    /\ starts' = [starts EXCEPT ![i] = @ + 1]
    /\ i' = i + 1
    /\ pc' = "drain1"
    /\ UNCHANGED <<config, stop_event, print_queue, progress_lock, counter,
                   workq, hpc, printed, interrupts, attempted, abandoned,
                   outcome, dispAtStop>>

Call1 ==
    /\ MainRunnable
    /\ pc = "call1"
    /\ wk' = [wk EXCEPT ![1] = EnterW(i)]
    /\ starts' = [starts EXCEPT ![i] = @ + 1]
    /\ i' = i + 1
    /\ pc' = "in_worker"
    /\ UNCHANGED <<config, stop_event, print_queue, progress_lock, counter,
                   workq, hpc, printed, interrupts, attempted, abandoned,
                   outcome, dispAtStop>>

Drain1Print ==
    /\ MainRunnable
    /\ pc = "drain1"
    /\ print_queue # <<>>
    /\ printed' = Append(printed, Head(print_queue))
    /\ print_queue' = Tail(print_queue)
    /\ UNCHANGED <<config, stop_event, progress_lock, counter, pc, i, workq,
                   wk, hpc, interrupts, ghost>>

Drain1Empty ==
    /\ MainRunnable
    /\ pc = "drain1"
    /\ print_queue = <<>>
    /\ pc' = "loop1"
    /\ UNCHANGED <<config, stop_event, print_queue, progress_lock, counter,
                   i, workq, wk, hpc, printed, interrupts, ghost>>

\* ---- main, thread pool: lines 156-169 ----
SubmitCheck ==
    /\ MainRunnable
    /\ pc = "loopN"
    /\ pc' = IF i > total \/ stop_event THEN "drain" ELSE "submit"
    /\ UNCHANGED <<config, stop_event, print_queue, progress_lock, counter,
                   i, workq, wk, hpc, printed, interrupts, ghost>>

Submit ==
    /\ MainRunnable
    /\ pc = "submit"
    /\ workq' = Append(workq, i)
    /\ i' = i + 1
    /\ pc' = "loopN"
    /\ UNCHANGED <<config, stop_event, print_queue, progress_lock, counter,
                   wk, hpc, printed, interrupts, ghost>>

\* a pool thread takes the next work item and enters worker()
WorkerTake(w) ==
    /\ w \in Threads
    /\ threads > 1
    /\ wk[w].pc = "idle"
    /\ workq # <<>>
    /\ wk' = [wk EXCEPT ![w] = EnterW(Head(workq))]
    /\ starts' = [starts EXCEPT ![Head(workq)] = @ + 1]
    /\ workq' = Tail(workq)
    /\ UNCHANGED <<config, stop_event, print_queue, progress_lock, counter,
                   pc, i, hpc, printed, interrupts, attempted, abandoned,
                   outcome, dispAtStop>>

\* variant: the loop condition of line 164 without the stop_event test
DrainCheck_IgnoresStop ==
    /\ MainRunnable
    /\ pc = "drain"
    /\ pc' = IF counter < total THEN "get" ELSE "shutdown"
    /\ UNCHANGED <<config, stop_event, print_queue, progress_lock, counter,
                   i, workq, wk, hpc, printed, interrupts, ghost>>

DrainCheck ==
    /\ MainRunnable
    /\ pc = "drain"
    /\ pc' = IF counter < total /\ ~stop_event THEN "get" ELSE "shutdown"
    /\ UNCHANGED <<config, stop_event, print_queue, progress_lock, counter,
                   i, workq, wk, hpc, printed, interrupts, ghost>>

DrainGet ==
    /\ MainRunnable
    /\ pc = "get"
    /\ print_queue # <<>>
    /\ printed' = Append(printed, Head(print_queue))
    /\ print_queue' = Tail(print_queue)
    /\ pc' = "drain"
    /\ UNCHANGED <<config, stop_event, progress_lock, counter, i, workq, wk,
                   hpc, interrupts, ghost>>

DrainTimeout ==
    /\ MainRunnable
    /\ pc = "get"
    /\ print_queue = <<>>
    /\ pc' = "drain"
    /\ UNCHANGED <<config, stop_event, print_queue, progress_lock, counter,
                   i, workq, wk, hpc, printed, interrupts, ghost>>

\* leaving the with block: executor.shutdown(wait=True) joins the pool threads
Shutdown ==
    /\ MainRunnable
    /\ pc = "shutdown"
    /\ workq = <<>>
    /\ \A w \in Threads : wk[w].pc = "idle"
    /\ pc' = "summary"
    /\ UNCHANGED <<config, stop_event, print_queue, progress_lock, counter,
                   i, workq, wk, hpc, printed, interrupts, ghost>>

\* ---- main, lines 171-177 ----
\* variant: the flag is cleared once the summary is chosen
Summary_ClearsFlag ==
    /\ MainRunnable
    /\ pc = "summary"
    /\ printed' = Append(printed, SummaryMsg(stop_event))
    /\ stop_event' = FALSE
    /\ pc' = "done"
    /\ UNCHANGED <<config, print_queue, progress_lock, counter, i, workq, wk,
                   hpc, interrupts, ghost>>

\* variant: the summary does not look at stop_event
Summary_AlwaysCompleted ==
    /\ MainRunnable
    /\ pc = "summary"
    /\ printed' = Append(printed, SummaryMsg(FALSE))
    /\ pc' = "done"
    /\ UNCHANGED <<config, stop_event, print_queue, progress_lock, counter,
                   i, workq, wk, hpc, interrupts, ghost>>

Summary ==
    /\ MainRunnable
    /\ pc = "summary"
    /\ printed' = Append(printed, SummaryMsg(stop_event))
    /\ pc' = "done"
    /\ UNCHANGED <<config, stop_event, print_queue, progress_lock, counter,
                   i, workq, wk, hpc, interrupts, ghost>>

MainStep ==
    \/ Loop1Check \/ Call1 \/ Drain1Print \/ Drain1Empty
    \/ SubmitCheck \/ Submit \/ DrainCheck \/ DrainGet \/ DrainTimeout
    \/ Shutdown \/ Summary

ConvertEnd(w) == ConvertReturn(w) \/ ConvertFail(w) \/ ConvertHang(w)

WorkerStep(w) ==
    \/ WorkerTake(w) \/ WorkerAbandon(w) \/ WorkerStart(w)
    \/ ConvertCall(w) \/ ConvertEnd(w)
    \/ LockAcquire(w) \/ CounterLoad(w) \/ CounterStore(w) \/ ComputeEta(w)
    \/ PutDone(w) \/ PutError(w)

Next ==
    \/ HandlerPut
    \/ HandlerSet
    \/ Loop1Check
    \/ Call1
    \/ Drain1Print
    \/ Drain1Empty
    \/ SubmitCheck
    \/ Submit
    \/ DrainCheck
    \/ DrainGet
    \/ DrainTimeout
    \/ Shutdown
    \/ Summary
    \/ \E w \in 1..MaxThreads : WorkerTake(w)
    \/ \E w \in 1..MaxThreads : WorkerAbandon(w)
    \/ \E w \in 1..MaxThreads : WorkerStart(w)
    \/ \E w \in 1..MaxThreads : ConvertCall(w)
    \/ \E w \in 1..MaxThreads : ConvertReturn(w)
    \/ \E w \in 1..MaxThreads : ConvertFail(w)
    \/ \E w \in 1..MaxThreads : ConvertHang(w)
    \/ \E w \in 1..MaxThreads : LockAcquire(w)
    \/ \E w \in 1..MaxThreads : CounterLoad(w)
    \/ \E w \in 1..MaxThreads : CounterStore(w)
    \/ \E w \in 1..MaxThreads : ComputeEta(w)
    \/ \E w \in 1..MaxThreads : PutDone(w)
    \/ \E w \in 1..MaxThreads : PutError(w)

Spec == Init /\ [][Next]_vars

\* The main thread and every pool thread keep running; the handler, once
\* entered, finishes.  Nothing obliges a SIGINT to arrive.
FairSpec ==
    /\ Spec
    /\ WF_vars(MainStep)
    /\ WF_vars(HandlerSet)
    /\ \A w \in 1..MaxThreads : WF_vars(WorkerStep(w))

\* ---- derived views of the run ----
IsTerminal(m) == m.kind \in {"done", "error"}
Enqueued == printed \o print_queue
LinesOf(s, j) == Cardinality({k \in DOMAIN s : IsTerminal(s[k]) /\ s[k].job = j})
TerminalLines(s) == SelectSeq(s, IsTerminal)
StoppingCount(s) == Cardinality({k \in DOMAIN s : s[k] = StoppingMsg})
Succeeded == {j \in Jobs : outcome[j] = "ok"}
Failed == {j \in Jobs : outcome[j] = "fail"}
AnyHung == \E w \in Threads : wk[w].pc = "hung"
InFlight == {w \in Threads : wk[w].pc # "idle"}
SummaryPrinted(stopped) ==
    /\ pc = "done"
    /\ printed # <<>>
    /\ printed[Len(printed)] = SummaryMsg(stopped)
Quiescent == i > total /\ workq = <<>> /\ InFlight = {}

\* C1: with no interrupt, when the final summary is printed exactly one
\* terminal status line per job has been printed and none is left in
\* print_queue, for every worker count.
C1_AllLinesPrinted ==
    (pc = "done" /\ interrupts = 0) =>
        /\ Len(TerminalLines(printed)) = total
        /\ \A j \in Jobs : LinesOf(printed, j) = 1
        /\ TerminalLines(print_queue) = <<>>

\* C2: with no interrupt and every conversion call returning, a run in which
\* a conversion failed eventually terminates with counter equal to the number
\* of successful jobs and the summary "completed".
C2_FailureRunCompletes ==
    (Failed # {}) ~>
        \/ interrupts > 0
        \/ AnyHung
        \/ /\ SummaryPrinted(FALSE)
           /\ counter = total - Cardinality(Failed)

\* C3 (as stated): when stop_event was set after exactly K jobs were
\* dispatched, exactly those K jobs are attempted and end in success or
\* failure, and the summary is "stopped early".
C3_ExactlyKAttempted ==
    (pc = "done" /\ stop_event) =>
        /\ attempted = 1..dispAtStop
        /\ \A j \in attempted : outcome[j] \in {"ok", "fail"}
        /\ SummaryPrinted(TRUE)

\* C3 (amended): when stop_event was set after exactly K jobs were
\* dispatched, only jobs among those K are ever attempted, and at the summary
\* every attempted job has ended in success or failure and the summary is
\* "stopped early".
C3_AtMostKAttempted ==
    /\ stop_event => attempted \subseteq 1..dispAtStop
    /\ (pc = "done" /\ stop_event) =>
          /\ \A j \in attempted : outcome[j] \in {"ok", "fail"}
          /\ SummaryPrinted(TRUE)

C3_Witness ==
    /\ pc = "done"
    /\ stop_event
    /\ dispAtStop = 2
    /\ attempted = {1}
    /\ abandoned = {2}

\* C4: counter never exceeds the number of jobs whose conversions all
\* succeeded, never exceeds total, and never decreases.
C4_CounterBounded ==
    /\ [](counter <= Cardinality(Succeeded) /\ counter <= total)
    /\ [][counter' >= counter]_vars

C4_Witness ==
    /\ Failed # {}
    /\ counter >= 1
    /\ counter = Cardinality(Succeeded)

\* C5: with one worker the k-th terminal line printed is the line of job k,
\* and job j+1 is not started before the line of job j is printed.
C5_SingleWorkerOrder ==
    threads = 1 =>
        /\ \A k \in DOMAIN TerminalLines(printed) :
              TerminalLines(printed)[k].job = k
        /\ \A j \in Jobs :
              (j > 1 /\ starts[j] > 0) => LinesOf(printed, j - 1) = 1

C5_Witness ==
    /\ threads = 1
    /\ total >= 2
    /\ Len(TerminalLines(printed)) = total
    /\ pc = "done"

\* C6: a failing conversion of job J leaves counter alone and enqueues
\* exactly one failure line for J; it touches no other worker and no pending
\* work item, no job is ever processed twice, and without an interrupt every
\* job is processed once and has exactly one line when the pool is quiet.
C6_FailureIsLocal ==
    /\ [][\A w \in Threads :
            (wk[w].pc = "converting" /\ wk'[w].pc = "except") =>
                /\ counter' = counter
                /\ print_queue' = print_queue
                /\ workq' = workq
                /\ starts' = starts
                /\ stop_event' = stop_event
                /\ \A v \in Threads \ {w} : wk'[v] = wk[v]]_vars
    /\ [][\A w \in Threads :
            (wk[w].pc = "except" /\ wk'[w].pc # "except") =>
                /\ counter' = counter
                /\ print_queue' = Append(print_queue, ErrorMsg(wk[w].job))
                /\ workq' = workq
                /\ starts' = starts
                /\ stop_event' = stop_event
                /\ \A v \in Threads \ {w} : wk'[v] = wk[v]]_vars
    /\ [](\A j \in Jobs :
            /\ starts[j] <= 1
            /\ LinesOf(Enqueued, j) <= 1
            /\ outcome[j] = "fail" =>
                 \A k \in DOMAIN Enqueued :
                    Enqueued[k].job = j => Enqueued[k].kind = "error")
    /\ []((Quiescent /\ interrupts = 0) =>
            /\ counter = total - Cardinality(Failed)
            /\ \A j \in Jobs : starts[j] = 1 /\ LinesOf(Enqueued, j) = 1)

C6_Witness ==
    /\ Quiescent
    /\ interrupts = 0
    /\ total >= 2
    /\ Cardinality(Failed) = 1
    /\ counter = total - 1

\* C7: in pool mode, when one worker's conversion call never returns and
\* cancellation is requested, the run still eventually prints the summary
\* "stopped early".
C7_HungWorkerStillStops ==
    (threads > 1 /\ AnyHung /\ stop_event) ~> SummaryPrinted(TRUE)

C9_StoppingOnce == StoppingCount(Enqueued) <= 1

\* C10: in pool mode the drain loop is left only when every job has been
\* dispatched and has its terminal line enqueued, or when stop_event is set
\* and no job is in flight.
C10_DrainExit ==
    [][(pc = "drain" /\ pc' = "shutdown") =>
          \/ /\ i > total
             /\ \A j \in Jobs : LinesOf(Enqueued, j) = 1
          \/ /\ stop_event
             /\ InFlight = {}]_vars

\* ---- views of the worker activations ----
Slots == 1..MaxThreads
InCritical == {w \in Slots : wk[w].pc \in {"load", "store", "eta"}}
Incremented == {w \in Slots : wk[w].pc \in {"eta", "put"}}
Converting == {w \in Slots : wk[w].pc \in {"converting", "hung"}}
DoneLines == {k \in DOMAIN Enqueued : Enqueued[k].kind = "done"}

\* C11: the increment of counter and the reads used for the estimate are one
\* critical section: at most one worker is inside it, the value a worker
\* loaded is still the counter when it stores, the estimate is computed from
\* the value its own increment produced, and no two completions (in progress
\* or already enqueued) saw the same pre-increment value.
C11_CriticalSection ==
    /\ Cardinality(InCritical) <= 1
    /\ \A w \in Slots :
          /\ wk[w].pc = "store" => wk[w].reg = counter
          /\ wk[w].pc = "eta" => counter = wk[w].reg + 1
          /\ wk[w].pc = "put" => wk[w].rem = total - (wk[w].reg + 1)
    /\ \A w \in Slots : \A v \in Slots :
          (w # v /\ wk[w].pc \in {"store", "eta", "put"}
                 /\ wk[v].pc \in {"store", "eta", "put"})
             => wk[w].reg # wk[v].reg
    /\ \A w \in Slots : \A k \in DoneLines :
          wk[w].pc \in {"store", "eta", "put"}
             => Enqueued[k].left # total - (wk[w].reg + 1)
    /\ \A k \in DoneLines : \A m \in DoneLines :
          k # m => Enqueued[k].left # Enqueued[m].left

C11_Witness ==
    /\ \E w \in Slots : \E v \in Slots :
          wk[w].pc = "store" /\ wk[v].pc = "acquire"
    /\ DoneLines = {}

\* C12: a worker that finds stop_event set when it begins a job returns at
\* once: no conversion call, counter unchanged, nothing enqueued; an
\* abandoned job is never attempted and never has a status line.
C12_AbandonHasNoEffect ==
    /\ [][\A w \in Slots :
            (wk[w].pc = "check" /\ stop_event /\ wk'[w] # wk[w]) =>
                /\ wk'[w] = IdleW
                /\ counter' = counter
                /\ print_queue' = print_queue
                /\ outcome' = outcome
                /\ attempted' = attempted]_vars
    /\ [](\A j \in abandoned :
            /\ j \notin attempted
            /\ outcome[j] = "none"
            /\ \A k \in DOMAIN Enqueued : Enqueued[k].job # j)

C12_Witness ==
    /\ abandoned # {}
    /\ attempted # {}
    /\ Quiescent

\* C13: once stop_event is set, the conversion call for the next output
\* format of a job already being converted is not initiated.
C13_NoNextFormatCall ==
    [][\A w \in Slots :
          (stop_event /\ wk[w].fmt > 1 /\ wk[w].pc = "loop")
             => wk'[w].pc # "converting"]_vars

\* C14: the number of conversion calls in progress never exceeds the
\* configured thread count (at most one with --threads 1).
C14_BoundedConcurrency == Cardinality(Converting) <= threads

C14_Witness ==
    /\ threads = 2
    /\ Cardinality(Converting) = 2

\* C15: stop_event is false at the start, becomes true only in
\* handle_interrupt, and once true stays true.
C15_FlagLifecycle ==
    /\ ~stop_event
    /\ [][stop_event => stop_event']_vars
    /\ [][(~stop_event /\ stop_event') => (hpc = "set" /\ hpc' = "idle")]_vars

C15_Witness ==
    /\ stop_event
    /\ pc = "done"
    /\ interrupts = 1

\* C16: inside one worker the formats are converted one at a time in request
\* order, counter is incremented only after the last format succeeded, the
\* success line is enqueued only after that increment, and a failed format
\* ends the job's conversion calls.
C16_StepOrder ==
    /\ [][\A w \in Slots :
            /\ (wk'[w].pc = "converting" /\ wk[w].pc # "converting") =>
                  /\ wk[w].pc = "loop"
                  /\ wk'[w].fmt = wk[w].fmt
                  /\ wk'[w].job = wk[w].job
            /\ (wk'[w].fmt # wk[w].fmt) =>
                  \/ wk[w].pc = "check" /\ wk'[w].pc = "loop" /\ wk'[w].fmt = 1
                  \/ /\ wk[w].pc = "converting"
                     /\ wk'[w].pc = "loop"
                     /\ wk'[w].fmt = wk[w].fmt + 1
                  \/ wk'[w] = IdleW
            /\ (wk'[w].pc = "acquire" /\ wk[w].pc # "acquire") =>
                  wk[w].pc = "converting" /\ wk[w].fmt = nformats
            /\ wk[w].pc = "except" => wk'[w].pc \in {"except", "idle"}]_vars
    /\ [][counter' # counter =>
            \E w \in Slots :
               /\ wk[w].pc = "store"
               /\ wk'[w].pc = "eta"
               /\ outcome[wk[w].job] = "ok"
               /\ counter' = counter + 1]_vars
    /\ [][\A j \in Jobs :
            (LinesOf(Enqueued', j) # LinesOf(Enqueued, j)
                /\ outcome[j] = "ok") =>
               \E w \in Slots :
                  /\ wk[w].pc = "put"
                  /\ wk[w].job = j
                  /\ print_queue' =
                        Append(print_queue, DoneMsg(j, wk[w].rem))]_vars
    /\ [](\A w \in Slots :
            wk[w].pc \in {"acquire", "load", "store", "eta", "put"} =>
               wk[w].fmt = nformats /\ outcome[wk[w].job] = "ok")

C16_Witness ==
    /\ nformats = 2
    /\ \E j \in Jobs : outcome[j] = "ok" /\ LinesOf(Enqueued, j) = 1
    /\ \E j \in Jobs : outcome[j] = "fail" /\ LinesOf(Enqueued, j) = 1

\* C17: when the summary says "All conversions completed", every job was
\* attempted and ended in success or failure.
C17_CompletedMeansAllDone ==
    SummaryPrinted(FALSE) =>
        \A j \in Jobs : j \in attempted /\ outcome[j] \in {"ok", "fail"}

C17_Witness ==
    /\ SummaryPrinted(FALSE)
    /\ total >= 2
    /\ threads >= 2

\* C18: each job has at most one terminal line enqueued, and counter equals
\* the success lines enqueued plus the workers that incremented the counter
\* and have not yet enqueued their line.
C18_LinesAndCounter ==
    /\ \A j \in Jobs : LinesOf(Enqueued, j) <= 1
    /\ counter = Cardinality(DoneLines) + Cardinality(Incremented)

C18_Witness ==
    /\ Cardinality(DoneLines) = 1
    /\ Cardinality(Incremented) = 1
    /\ Failed = {}

\* C19: whenever stop_event is set, a "stopping" message has already been
\* enqueued.
C19_MessageBeforeFlag ==
    stop_event => StoppingCount(Enqueued) >= 1

C19_Witness ==
    /\ stop_event
    /\ abandoned # {}
    /\ StoppingCount(Enqueued) = 1

\* C20: when an interrupt was received before the summary, at the end of the
\* run the "stopping" message and the line of every attempted job have been
\* printed and print_queue is empty.
C20_NothingLeftUnprinted ==
    (pc = "done" /\ interrupts > 0) =>
        /\ print_queue = <<>>
        /\ StoppingCount(printed) >= 1
        /\ \A j \in attempted : LinesOf(printed, j) = 1

====
